---- MODULE Spec2Model ----
(***************************************************************************)
(* A model of the Open-Meteo ETL pipeline: the query configuration model   *)
(* (weather_query.py), the schema registry (weather_schema.py) and the     *)
(* pipeline driver (main.py: load, check_data_integrity, parse and the     *)
(* batch loop).                                                            *)
(*                                                                         *)
(* Conventions.  Python strings are TLA+ strings, built by concatenation   *)
(* as the code builds them and searched character by character.            *)
(* The elevation (a float) is an integer number of metres; a latitude or   *)
(* longitude (a float) is held as its decimal text.  None is the record    *)
(* None.                                                                   *)
(***************************************************************************)
EXTENDS Integers, Sequences, FiniteSets, TLC

VARIABLES
    \* ---- query configuration model (weather_query.py) ----
    query,                \* the query object: its class and attributes (or the arguments of a rejected construction)
    q_state,              \* "new" | "constructed" | "rejected"
    ret,                  \* what the last operation on the query returned or raised
    \* ---- pipeline driver (main.py) ----
    configs,              \* the ordered list of query configurations of the batch
    idx,                  \* position in configs of the query being processed (1-based)
    pc,                   \* "load" | "check" | "parse" | "completed" | "crashed"
    weather_data,         \* the DataFrame handed from load to the later stages
    response,             \* what the API client did for the current query
    FREQUENCY_TO_SCHEMA,  \* the module-level schema registry of weather_schema.py
    raw_files,            \* files under RAW_DATA_DIR
    processed_files,      \* files under PROCESSED_DATA_DIR
    error,                \* the exception that left the batch loop, or NoError
    log,                  \* log.warning entries of the last integrity check
    stages                \* per query of the batch, the stages started so far, in order

query_vars == <<query, q_state, ret>>
driver_vars == <<configs, idx, pc, weather_data, response, FREQUENCY_TO_SCHEMA,
                 raw_files, processed_files, error, log, stages>>
vars == <<query, q_state, ret, configs, idx, pc, weather_data, response,
          FREQUENCY_TO_SCHEMA, raw_files, processed_files, error, log, stages>>

----------------------------------------------------------------------------
(* Helpers on sequences *)

Range(s) == {s[i] : i \in 1..Len(s)}

SeqsUpTo(S, n) == UNION {[1..k -> S] : k \in 0..n}

\* s.startswith(prefix)
startswith(s, prefix) == Len(s) >= Len(prefix) /\ SubSeq(s, 1, Len(prefix)) = prefix

RECURSIVE str_replace(_, _, _)
\* s.replace(old, new): every occurrence of old, left to right
str_replace(s, old, new) ==
    IF Len(s) < Len(old) THEN s
    ELSE IF SubSeq(s, 1, Len(old)) = old
         THEN new \o str_replace(SubSeq(s, Len(old) + 1, Len(s)), old, new)
         ELSE SubSeq(s, 1, 1) \o str_replace(SubSeq(s, 2, Len(s)), old, new)

None == [is_none |-> TRUE, value |-> 0]
Some(v) == [is_none |-> FALSE, value |-> v]

----------------------------------------------------------------------------
(* weather_schema.py *)

MinutelyWeatherMetrics == "MinutelyWeatherMetrics"
HourlyWeatherMetrics == "HourlyWeatherMetrics"
DailyWeatherMetrics == "DailyWeatherMetrics"

MetricClasses == {MinutelyWeatherMetrics, HourlyWeatherMetrics, DailyWeatherMetrics}

\* The members of each enumeration, in definition order: (field name, arrow type).
MinutelyMembers ==
    << <<"temperature_2m", "float32">>, <<"relative_humidity_2m", "float32">>,
       <<"dew_point_2m", "float32">>, <<"apparent_temperature", "float32">>,
       <<"shortwave_radiation", "float32">>, <<"direct_radiation", "float32">>,
       <<"direct_normal_irradiance", "float32">>, <<"diffuse_radiation", "float32">>,
       <<"sunshine_duration", "float32">>, <<"precipitation", "float32">>,
       <<"snowfall", "float32">>, <<"rain", "float32">>, <<"showers", "float32">>,
       <<"wind_speed_10m", "float32">>, <<"wind_direction_10m", "float32">>,
       <<"wind_gusts_10m", "float32">>, <<"lightning_potential", "float32">>,
       <<"freezing_level_height", "float32">>, <<"cape", "float32">>,
       <<"visibility", "float32">>, <<"weather_code", "int32">> >>

HourlyMembers ==
    << <<"temperature_2m", "float32">>, <<"relative_humidity_2m", "float32">>,
       <<"dew_point_2m", "float32">>, <<"apparent_temperature", "float32">>,
       <<"surface_pressure", "float32">>, <<"cloud_cover_mid", "float32">>,
       <<"wind_speed_10m", "float32">>, <<"wind_direction_10m", "float32">>,
       <<"wind_gusts_10m", "float32">>, <<"shortwave_radiation", "float32">>,
       <<"direct_radiation", "float32">>, <<"direct_normal_irradiance", "float32">>,
       <<"diffuse_radiation", "float32">>, <<"precipitation", "float32">>,
       <<"snowfall", "float32">>, <<"rain", "float32">>, <<"showers", "float32">>,
       <<"precipitation_probability", "float32">>, <<"snow_depth", "float32">>,
       <<"soil_temperature_18cm", "float32">>, <<"soil_moisture_3_to_9cm", "float32">>,
       <<"vapour_pressure_deficit", "float32">>, <<"cape", "float32">>,
       <<"evapotranspiration", "float32">>, <<"et0_fao_evapotranspiration", "float32">>,
       <<"freezing_level_height", "float32">>, <<"visibility", "float32">>,
       <<"weather_code", "int32">>, <<"is_day", "bool">> >>

DailyMembers ==
    << <<"temperature_2m_max", "float32">>, <<"temperature_2m_min", "float32">>,
       <<"apparent_temperature_max", "float32">>, <<"apparent_temperature_min", "float32">>,
       <<"sunrise", "timestamp[ns, tz=utc]">>, <<"sunset", "timestamp[ns, tz=utc]">>,
       <<"daylight_duration", "float32">>, <<"sunshine_duration", "float32">>,
       <<"shortwave_radiation_sum", "float32">>, <<"uv_index_max", "float32">>,
       <<"uv_index_clear_sky_max", "float32">>, <<"precipitation_sum", "float32">>,
       <<"rain_sum", "float32">>, <<"showers_sum", "float32">>,
       <<"snowfall_sum", "float32">>, <<"precipitation_hours", "float32">>,
       <<"precipitation_probability_max", "float32">>, <<"wind_speed_10m_max", "float32">>,
       <<"wind_gusts_10m_max", "float32">>, <<"wind_direction_10m_dominant", "float32">>,
       <<"weather_code", "int32">>, <<"et0_fao_evapotranspiration", "float32">> >>

Members(cls) ==
    CASE cls = MinutelyWeatherMetrics -> MinutelyMembers
      [] cls = HourlyWeatherMetrics -> HourlyMembers
      [] cls = DailyWeatherMetrics -> DailyMembers

\* An enumeration member: the class it belongs to and its value.
Metric(cls, i) == [cls |-> cls, value |-> Members(cls)[i]]

field_name(metric) == metric.value[1]
schema_type(metric) == metric.value[2]

\* list(cls)
get_all(cls) ==
    [i \in 1..Len(Members(cls)) |-> Metric(cls, i)]

RECURSIVE format_list(_)
\* ",".join(metric.field_name for metric in metrics): the field names in the caller's order
format_list(metrics) ==
    IF metrics = <<>> THEN ""
    ELSE IF Len(metrics) = 1 THEN field_name(Head(metrics))
    ELSE field_name(Head(metrics)) \o "," \o format_list(Tail(metrics))

get_metadata_schema ==
    << <<"obs_timestamp", "timestamp[ns, tz=utc]">>, <<"latitude", "float64">>,
       <<"longitude", "float64">>, <<"elevation", "float32">>, <<"model", "int64">>,
       <<"utc_offset_seconds", "int32">>, <<"timezone", "string">>,
       <<"timezone_abbreviation", "string">>, <<"generation_time_ms", "float32">>,
       <<"ingested_at", "timestamp[ns, tz=utc]">> >>

get_schema(cls) ==
    get_metadata_schema \o
    [i \in 1..Len(Members(cls)) |->
        <<field_name(Metric(cls, i)), schema_type(Metric(cls, i))>>]

----------------------------------------------------------------------------
(* weather_query.py: enumerations and mappings *)

MINUTELY_15 == "15_MINUTE"
HOURLY == "1_HOUR"
EOD == "EOD"
WeatherFrequency == {MINUTELY_15, HOURLY, EOD}

WeatherForecastQueryConfig == "WeatherForecastQueryConfig"
WeatherHistoricalQueryConfig == "WeatherHistoricalQueryConfig"
QueryClasses == {WeatherForecastQueryConfig, WeatherHistoricalQueryConfig}

\* Location members (by value) and their coordinates, as the text str() gives
LOCATION_COORDINATES ==
    [BERLIN |-> <<"52.52", "13.41">>, LONDON |-> <<"51.51", "-0.13">>,
     PARIS |-> <<"48.85", "2.35">>, NEW_YORK |-> <<"40.71", "-74.01">>]

FREQUENCY_MAPPINGS(frequency) ==
    CASE frequency = MINUTELY_15 ->
            [field_name |-> "minutely_15", response_method |-> "Minutely15",
             start_param |-> "start_minutely_15", end_param |-> "end_minutely_15",
             weather_metrics_cls |-> MinutelyWeatherMetrics]
      [] frequency = HOURLY ->
            [field_name |-> "hourly", response_method |-> "Hourly",
             start_param |-> "start_hour", end_param |-> "end_hour",
             weather_metrics_cls |-> HourlyWeatherMetrics]
      [] frequency = EOD ->
            [field_name |-> "daily", response_method |-> "Daily",
             start_param |-> "start_date", end_param |-> "end_date",
             weather_metrics_cls |-> DailyWeatherMetrics]

\* A slip in the historical class: the forecast list returned for every class.
supported_frequencies_same_for_all(cls) == <<MINUTELY_15, HOURLY, EOD>>

supported_frequencies(cls) ==
    IF cls = WeatherForecastQueryConfig
    THEN <<MINUTELY_15, HOURLY, EOD>>
    ELSE <<HOURLY, EOD>>

api_url(cls) ==
    IF cls = WeatherForecastQueryConfig
    THEN "https://api.open-meteo.com/v1/forecast"
    ELSE "https://archive-api.open-meteo.com/v1/archive"

output_prefix(cls) ==
    IF cls = WeatherForecastQueryConfig THEN "Forecast/" ELSE "Historical/"

----------------------------------------------------------------------------
(* datetime: a value of class datetime.datetime, to the second *)

DateTime(y, mo, d, h, mi, s) ==
    [py_class |-> "datetime", year |-> y, month |-> mo, day |-> d,
     hour |-> h, minute |-> mi, second |-> s]

\* The classes a value is an instance of: datetime.datetime extends datetime.date.
Bases(py_class) ==
    IF py_class = "datetime" THEN {"datetime", "date", "object"}
    ELSE {py_class, "object"}

isinstance(value, py_class) == py_class \in Bases(value.py_class)

IsLeap(y) == (y % 4 = 0 /\ y % 100 # 0) \/ y % 400 = 0

DaysInMonth(y, mo) ==
    IF mo = 2 THEN (IF IsLeap(y) THEN 29 ELSE 28)
    ELSE IF mo \in {4, 6, 9, 11} THEN 30 ELSE 31

\* dt.replace(hour=0, minute=0, second=0, microsecond=0)
replace_midnight(dt) == [dt EXCEPT !.hour = 0, !.minute = 0, !.second = 0]

\* dt + timedelta(days=1)
plus_one_day(dt) ==
    IF dt.day < DaysInMonth(dt.year, dt.month) THEN [dt EXCEPT !.day = dt.day + 1]
    ELSE IF dt.month < 12 THEN [dt EXCEPT !.day = 1, !.month = dt.month + 1]
    ELSE [dt EXCEPT !.day = 1, !.month = 1, !.year = dt.year + 1]

Pad2(n) == IF n < 10 THEN "0" \o ToString(n) ELSE ToString(n)

\* dt.strftime(format), for the four formats the code uses
strftime(dt, format) ==
    CASE format = "%Y-%m-%d" ->
            ToString(dt.year) \o "-" \o Pad2(dt.month) \o "-" \o Pad2(dt.day)
      [] format = "%Y-%m-%dT%H:%M" ->
            ToString(dt.year) \o "-" \o Pad2(dt.month) \o "-" \o Pad2(dt.day)
                \o "T" \o Pad2(dt.hour) \o ":" \o Pad2(dt.minute)
      [] format = "%Y%m%d" ->
            ToString(dt.year) \o Pad2(dt.month) \o Pad2(dt.day)
      [] format = "%Y%m%d_%H%M" ->
            ToString(dt.year) \o Pad2(dt.month) \o Pad2(dt.day)
                \o "_" \o Pad2(dt.hour) \o Pad2(dt.minute)

\* str(x) of a float holding a whole number: 8848.0 prints as "8848.0"
str_float(x) == ToString(x) \o ".0"

\* Python truthiness of an Optional[float]: None and 0.0 are falsy
truthy(opt) == ~opt.is_none /\ opt.value # 0

----------------------------------------------------------------------------
(* weather_query.py: BaseWeatherQueryConfig *)

\* A location is a Location member (its value) or a (latitude, longitude) tuple.
LocationMember(name) == [py_class |-> "Location", value |-> <<name>>]
LocationTuple(lat, lon) == [py_class |-> "tuple", value |-> <<lat, lon>>]

\* The object the constructor of class cls builds from its keyword arguments.
QueryConfig(cls, location, elevation, metrics, frequency, start_dt, end_dt) ==
    [cls |-> cls, location |-> location, elevation |-> elevation, metrics |-> metrics,
     frequency |-> frequency, start_dt |-> start_dt, end_dt |-> end_dt]

NoException ==
    [raised |-> FALSE, type |-> "", validator |-> "", frequency |-> "", cls_name |-> "",
     invalid_metrics |-> <<>>, expected |-> ""]

\* ValueError(f"Frequency {value} not supported for {cls.__name__}")
UnsupportedFrequencyError(value, cls) ==
    [raised |-> TRUE, type |-> "ValueError", validator |-> "validate_frequency",
     frequency |-> value, cls_name |-> cls, invalid_metrics |-> <<>>, expected |-> ""]

\* ValueError(f"Invalid metrics for frequency {self.frequency}: {invalid_metrics}. "
\*            f"Expected metrics of type {expected_metric_type.__name__}")
InvalidMetricsError(frequency, invalid_metrics, expected) ==
    [raised |-> TRUE, type |-> "ValueError", validator |-> "validate_metrics_frequency",
     frequency |-> frequency, cls_name |-> "", invalid_metrics |-> invalid_metrics,
     expected |-> expected]

\* @field_validator("frequency")
validate_frequency(cls, value) ==
    IF value \notin Range(supported_frequencies(cls))
    THEN UnsupportedFrequencyError(value, cls)
    ELSE NoException

\* A slip in the model validator: the error names the whole metric list.
validate_metrics_frequency_names_all(self) ==
    LET expected_metric_type == FREQUENCY_MAPPINGS(self.frequency).weather_metrics_cls
        invalid_metrics ==
            SelectSeq(self.metrics, LAMBDA metric : metric.cls # expected_metric_type)
    IN  IF invalid_metrics # <<>>
        THEN InvalidMetricsError(self.frequency, self.metrics, expected_metric_type)
        ELSE NoException

\* @model_validator(mode="after")
validate_metrics_frequency(self) ==
    LET expected_metric_type == FREQUENCY_MAPPINGS(self.frequency).weather_metrics_cls
        invalid_metrics ==
            SelectSeq(self.metrics, LAMBDA metric : metric.cls # expected_metric_type)
    IN  IF invalid_metrics # <<>>
        THEN InvalidMetricsError(self.frequency, invalid_metrics, expected_metric_type)
        ELSE NoException

\* A slip in the order of validation: the metric/tier check runs first and its
\* error is the one reported.
validate_model_metrics_first(self) ==
    LET model_error == validate_metrics_frequency(self)
    IN  IF model_error.raised
        THEN model_error
        ELSE validate_frequency(self.cls, self.frequency)

\* Model construction: the field validators run first; the "after" model
\* validator runs only when every field validated.
validate_model(self) ==
    LET field_error == validate_frequency(self.cls, self.frequency)
    IN  IF field_error.raised THEN field_error ELSE validate_metrics_frequency(self)

coordinates(self) ==
    IF self.location.py_class = "Location"
    THEN LOCATION_COORDINATES[self.location.value[1]]
    ELSE self.location.value

response_method(self) == FREQUENCY_MAPPINGS(self.frequency).response_method

\* d.update(u) on dicts: the keys of u win
Update(d, u) == u @@ d

\* A slip in the daily branch: the end is floored but not moved to the next day.
request_params_end_not_shifted(self) ==
    LET latitude == coordinates(self)[1]
        longitude == coordinates(self)[2]
        data == ("latitude" :> latitude) @@ ("longitude" :> longitude)
                @@ (IF truthy(self.elevation)
                    THEN "elevation" :> str_float(self.elevation.value)
                    ELSE <<>>)
        mapping == FREQUENCY_MAPPINGS(self.frequency)
        daily == self.frequency = EOD
        start == IF daily THEN replace_midnight(self.start_dt) ELSE self.start_dt
        end == IF daily THEN replace_midnight(self.end_dt) ELSE self.end_dt
        formatted_dt == IF daily THEN "%Y-%m-%d" ELSE "%Y-%m-%dT%H:%M"
    IN  Update(data,
               (mapping.field_name :> format_list(self.metrics))
               @@ (mapping.start_param :> strftime(start, formatted_dt))
               @@ (mapping.end_param :> strftime(end, formatted_dt)))

request_params(self) ==
    LET latitude == coordinates(self)[1]
        longitude == coordinates(self)[2]
        data == ("latitude" :> latitude) @@ ("longitude" :> longitude)
                @@ (IF truthy(self.elevation)
                    THEN "elevation" :> str_float(self.elevation.value)
                    ELSE <<>>)
        mapping == FREQUENCY_MAPPINGS(self.frequency)
        daily == self.frequency = EOD
        start == IF daily THEN replace_midnight(self.start_dt) ELSE self.start_dt
        end == IF daily THEN plus_one_day(replace_midnight(self.end_dt)) ELSE self.end_dt
        formatted_dt == IF daily THEN "%Y-%m-%d" ELSE "%Y-%m-%dT%H:%M"
    IN  Update(data,
               (mapping.field_name :> format_list(self.metrics))
               @@ (mapping.start_param :> strftime(start, formatted_dt))
               @@ (mapping.end_param :> strftime(end, formatted_dt)))

\* A slip in the path: the frequency member's name is written, not its value.
output_filename_frequency_name(self) ==
    LET location_str ==
            IF self.location.py_class = "Location"
            THEN self.location.value[1]
            ELSE self.location.value[1] \o "_" \o self.location.value[2]
        dt_format ==
            IF ~isinstance(self.start_dt, "date") THEN "%Y%m%d_%H%M" ELSE "%Y%m%d"
        start_str == strftime(self.start_dt, dt_format)
        end_str == strftime(self.end_dt, dt_format)
        frequency_name ==
            CASE self.frequency = MINUTELY_15 -> "MINUTELY_15"
              [] self.frequency = HOURLY -> "HOURLY"
              [] self.frequency = EOD -> "EOD"
    IN  output_prefix(self.cls)
        \o "location=" \o location_str \o "/"
        \o "frequency=" \o frequency_name \o "/"
        \o start_str \o "_" \o end_str \o ".csv"

output_filename(self) ==
    LET location_str ==
            IF self.location.py_class = "Location"
            THEN self.location.value[1]
            ELSE self.location.value[1] \o "_" \o self.location.value[2]
        dt_format ==
            IF ~isinstance(self.start_dt, "date") THEN "%Y%m%d_%H%M" ELSE "%Y%m%d"
        start_str == strftime(self.start_dt, dt_format)
        end_str == strftime(self.end_dt, dt_format)
    IN  output_prefix(self.cls)
        \o "location=" \o location_str \o "/"
        \o "frequency=" \o self.frequency \o "/"
        \o start_str \o "_" \o end_str \o ".csv"

\* The keys of request_params(), in the order the dict is filled.
request_param_keys(self) ==
    LET mapping == FREQUENCY_MAPPINGS(self.frequency)
    IN  <<"latitude", "longitude">>
        \o (IF truthy(self.elevation) THEN <<"elevation">> ELSE <<>>)
        \o <<mapping.field_name, mapping.start_param, mapping.end_param>>

RECURSIVE JoinLines(_, _)
\* "\n  ".join(f"{k}: {v}" for k, v in params.items())
JoinLines(keys, params) ==
    IF keys = <<>> THEN ""
    ELSE Head(keys) \o ": " \o params[Head(keys)]
         \o (IF Len(keys) = 1 THEN "" ELSE "\n  " \o JoinLines(Tail(keys), params))

\* __repr__
query_repr(self) ==
    self.cls \o ":\n  " \o JoinLines(request_param_keys(self), request_params(self))
    \o "\n  API URL: " \o api_url(self.cls)
    \o "\n  Output: " \o output_filename(self)

----------------------------------------------------------------------------
(* The values the model draws constructor arguments from *)

\* the longest metric list a query is built with
MaxMetrics == 2

QueryLocations ==
    {LocationMember("BERLIN"), LocationMember("LONDON"), LocationTuple("27.9881", "86.925")}

QueryElevations == {None, Some(0), Some(8848)}

\* TEMPERATURE_2M of the 15-minute and hourly tiers (the same field name in two
\* enumerations), TEMPERATURE_2M_MAX and SUNRISE of the daily tier
QueryMetrics ==
    {Metric(MinutelyWeatherMetrics, 1), Metric(HourlyWeatherMetrics, 1),
     Metric(DailyWeatherMetrics, 1), Metric(DailyWeatherMetrics, 5)}

\* two instants of one day, the ends of a year, of February in a leap year and
\* in a common year
QueryDateTimes ==
    {DateTime(2023, 12, 25, 12, 0, 0), DateTime(2024, 1, 1, 12, 0, 0),
     DateTime(2024, 1, 1, 18, 30, 45), DateTime(2023, 12, 31, 23, 59, 0),
     DateTime(2024, 2, 28, 0, 0, 0), DateTime(2023, 2, 28, 6, 15, 0)}

NoQuery ==
    QueryConfig("", LocationMember(""), None, <<>>, "", DateTime(0, 0, 0, 0, 0, 0),
                DateTime(0, 0, 0, 0, 0, 0))

NoReturn == [op |-> "", exc |-> NoException, value |-> <<>>]

----------------------------------------------------------------------------
(* Operations on one query configuration *)

QueryInit ==
    /\ query = NoQuery
    /\ q_state = "new"
    /\ ret = NoReturn

QueryIdle == QueryInit

\* cls(location=..., elevation=..., metrics=..., frequency=..., start_dt=..., end_dt=...)
Construct(cls, location, elevation, metrics, frequency, start_dt, end_dt) ==
    LET self == QueryConfig(cls, location, elevation, metrics, frequency, start_dt, end_dt)
        exc == validate_model(self)
    IN  /\ q_state = "new"
        /\ query' = self
        /\ q_state' = IF exc.raised THEN "rejected" ELSE "constructed"
        /\ ret' = [op |-> "__init__", exc |-> exc, value |-> <<>>]

ConstructAny ==
    /\ q_state = "new"
    /\ \E cls \in QueryClasses, location \in QueryLocations, elevation \in QueryElevations,
          metrics \in SeqsUpTo(QueryMetrics, MaxMetrics), frequency \in WeatherFrequency,
          start_dt \in QueryDateTimes, end_dt \in QueryDateTimes :
           Construct(cls, location, elevation, metrics, frequency, start_dt, end_dt)

\* query.request_params()
RequestParams ==
    /\ q_state = "constructed"
    /\ ret' = [op |-> "request_params", exc |-> NoException, value |-> request_params(query)]
    /\ UNCHANGED <<query, q_state>>

\* query.output_filename
OutputFilename ==
    /\ q_state = "constructed"
    /\ ret' = [op |-> "output_filename", exc |-> NoException, value |-> output_filename(query)]
    /\ UNCHANGED <<query, q_state>>

\* query.<name> = value.  The model class sets neither frozen nor
\* validate_assignment, so the assignment is stored and no validator runs.
SetAttr(name, value) ==
    /\ q_state = "constructed"
    /\ query' = [query EXCEPT ![name] = value]
    /\ ret' = [op |-> "__setattr__", exc |-> NoException, value |-> <<>>]
    /\ UNCHANGED q_state

SetAttrAny ==
    \/ \E value \in QueryLocations : SetAttr("location", value)
    \/ \E value \in QueryElevations : SetAttr("elevation", value)
    \/ \E value \in SeqsUpTo(QueryMetrics, MaxMetrics) : SetAttr("metrics", value)
    \/ \E value \in WeatherFrequency : SetAttr("frequency", value)
    \/ \E value \in QueryDateTimes : SetAttr("start_dt", value)
    \/ \E value \in QueryDateTimes : SetAttr("end_dt", value)

----------------------------------------------------------------------------
(* main.py: the values of the driver's state *)

\* FREQUENCY_TO_SCHEMA as the module builds it at import
InitialSchemas ==
    (MINUTELY_15 :> get_schema(MinutelyWeatherMetrics))
    @@ (HOURLY :> get_schema(HourlyWeatherMetrics))
    @@ (EOD :> get_schema(DailyWeatherMetrics))

\* A DataFrame: its columns in order, its number of rows, the values of its
\* obs_timestamp column (<<>> when it has no such column) and, per metric column,
\* the number of null values.
NoDataFrame == [columns |-> <<>>, rows |-> 0, obs_timestamp |-> <<>>, nulls |-> <<>>]

NoCause == [type |-> "", msg |-> ""]
NoError == [raised |-> FALSE, type |-> "", msg |-> "", detail |-> {}, cause |-> NoCause]
\* raise type(f"{msg}: {detail}"), detail a set the message prints
RaiseNaming(type, msg, detail) ==
    [raised |-> TRUE, type |-> type, msg |-> msg, detail |-> detail, cause |-> NoCause]
Raise(type, msg) == RaiseNaming(type, msg, {})
\* raise type(msg) from e
RaiseFrom(type, msg, e) ==
    [raised |-> TRUE, type |-> type, msg |-> msg, detail |-> {},
     cause |-> [type |-> e.type, msg |-> e.msg]]

NoResponse ==
    [raises |-> "", n |-> 0, has_data |-> FALSE, arrays_ok |-> FALSE, unit_known |-> FALSE,
     rows |-> 0, all_null |-> FALSE, write_ok |-> FALSE]

\* the batch loop has not been entered
DriverIdle ==
    /\ configs = <<>>
    /\ idx = 0
    /\ pc = "idle"
    /\ weather_data = NoDataFrame
    /\ response = NoResponse
    /\ FREQUENCY_TO_SCHEMA = InitialSchemas
    /\ raw_files = {}
    /\ processed_files = {}
    /\ error = NoError
    /\ log = <<>>
    /\ stages = <<>>

----------------------------------------------------------------------------
(* main.py: load *)

RECURSIVE Unique(_)
\* the keys of a dict filled in the order of s: first occurrences, in order
Unique(s) ==
    IF s = <<>> THEN <<>>
    ELSE LET rest == Unique(SubSeq(s, 1, Len(s) - 1))
             last == s[Len(s)]
         IN  IF last \in Range(rest) THEN rest ELSE Append(rest, last)

\* [field_name(metric) for metric in metrics]
FieldNames(metrics) == [i \in 1..Len(metrics) |-> field_name(metrics[i])]

UnitColumns(metrics) == [i \in 1..Len(metrics) |-> "unit_" \o field_name(metrics[i])]

\* _process_response(response): the DataFrame, or the exception raised.
\* outcome tells what the response holds: whether the frequency's accessor yields
\* a data object, whether the variable arrays fit the time range, whether every
\* unit code is in UNIT_NAMES, the number of timestamps and whether the values
\* are all NaN.
process_response(config, outcome) ==
    IF ~outcome.has_data
    THEN [exc |-> Raise("OpenMeteoMissingResponseError",
                        "No data received for " \o query_repr(config)),
          df |-> NoDataFrame]
    ELSE IF config.metrics # <<>> /\ ~outcome.arrays_ok
    THEN [exc |-> Raise("ValueError", "All arrays must be of the same length"),
          df |-> NoDataFrame]
    ELSE IF config.metrics # <<>> /\ ~outcome.unit_known
    THEN [exc |-> Raise("KeyError", "unit"), df |-> NoDataFrame]
    ELSE LET metric_columns == Unique(FieldNames(config.metrics))
             columns ==
                 Unique(metric_columns
                        \o <<"obs_timestamp", "latitude", "longitude", "elevation", "model",
                             "utc_offset_seconds", "timezone", "timezone_abbreviation",
                             "generation_time_ms", "ingested_at">>
                        \o UnitColumns(config.metrics))
         IN  [exc |-> NoError,
              df |-> [columns |-> columns,
                      rows |-> outcome.rows,
                      obs_timestamp |-> [i \in 1..outcome.rows |-> i],
                      nulls |-> [c \in Range(metric_columns) |->
                                    IF outcome.all_null THEN outcome.rows ELSE 0]]]

\* A slip in load's try block: the raw file is saved before the response is
\* counted and processed, so a fetch that fails later leaves a file behind.
load_try_saves_first(config, outcome) ==
    IF outcome.raises # ""
    THEN [exc |-> Raise(outcome.raises, "request failed"), df |-> NoDataFrame, written |-> {}]
    ELSE IF outcome.n # 1
    THEN [exc |-> Raise("OpenMeteoMissingResponseError",
                        "Expected 1 response for " \o query_repr(config)
                        \o ", but got len(responses)=" \o ToString(outcome.n)),
          df |-> NoDataFrame, written |-> {output_filename(config)}]
    ELSE LET processed == process_response(config, outcome)
         IN  IF processed.exc.raised
             THEN [exc |-> processed.exc, df |-> NoDataFrame,
                   written |-> {output_filename(config)}]
             ELSE IF ~outcome.write_ok
             THEN [exc |-> Raise("OSError", "cannot write the raw file"),
                   df |-> NoDataFrame, written |-> {}]
             ELSE [exc |-> NoError, df |-> processed.df,
                   written |-> {output_filename(config)}]

\* The body of load's try block: the exception it raises (if any), the DataFrame
\* and the raw file written.
load_try(config, outcome) ==
    IF outcome.raises # ""
    THEN [exc |-> Raise(outcome.raises, "request failed"), df |-> NoDataFrame, written |-> {}]
    ELSE IF outcome.n # 1
    THEN [exc |-> Raise("OpenMeteoMissingResponseError",
                        "Expected 1 response for " \o query_repr(config)
                        \o ", but got len(responses)=" \o ToString(outcome.n)),
          df |-> NoDataFrame, written |-> {}]
    ELSE LET processed == process_response(config, outcome)
         IN  IF processed.exc.raised
             THEN [exc |-> processed.exc, df |-> NoDataFrame, written |-> {}]
             ELSE IF ~outcome.write_ok
             THEN [exc |-> Raise("OSError", "cannot write the raw file"),
                   df |-> NoDataFrame, written |-> {}]
             ELSE [exc |-> NoError, df |-> processed.df,
                   written |-> {output_filename(config)}]

\* A slip in load's handler: the client error is raised without the original
\* error's message and without `from e`.
load_without_cause(config, outcome) ==
    LET tried == load_try(config, outcome)
    IN  IF tried.exc.raised
        THEN [exc |-> Raise("OpenMeteoClientError", "Failed to fetch data"),
              df |-> NoDataFrame, written |-> tried.written]
        ELSE tried

\* load(openmeteo, config): `except Exception as e` catches whatever the try block
\* raised, the missing-response errors included, and raises the client error from it.
load(config, outcome) ==
    LET tried == load_try(config, outcome)
    IN  IF tried.exc.raised
        THEN [exc |-> RaiseFrom("OpenMeteoClientError",
                                "Failed to fetch data: " \o tried.exc.msg, tried.exc),
              \* the handler removes nothing the try block wrote
              df |-> NoDataFrame, written |-> tried.written]
        ELSE tried

----------------------------------------------------------------------------
(* main.py: check_data_integrity *)

MinRows == 24
NullThresholdPercent == 20

\* round(num / den, 0), halves to the even neighbour
RoundHalfEven(num, den) ==
    LET q == num \div den
        r == num % den
    IN  IF 2 * r < den THEN q
        ELSE IF 2 * r > den THEN q + 1
        ELSE IF q % 2 = 0 THEN q ELSE q + 1

\* df["obs_timestamp"].duplicated().sum(): the rows whose timestamp occurred before
DuplicatedCount(ts) ==
    Cardinality({i \in 1..Len(ts) : \E j \in 1..(i - 1) : ts[j] = ts[i]})

Finding(msg, detail) == [msg |-> msg, detail |-> detail]

\* check_data_integrity(df): the exception raised (if any) and the warnings logged
check_data_integrity(df) ==
    LET rows == df.rows
        empty == rows = 0 \/ df.columns = <<>>
        insufficient ==
            IF rows < MinRows
            THEN <<Finding("Insufficient data points: found " \o ToString(rows)
                           \o " rows, expected at least 24", <<>>)>>
            ELSE <<>>
        duplicate_times == DuplicatedCount(df.obs_timestamp)
        duplicates ==
            IF duplicate_times > 0
            THEN <<Finding("Found " \o ToString(duplicate_times)
                           \o " duplicate timestamp entries", <<>>)>>
            ELSE <<>>
        metadata == {get_metadata_schema[i][1] : i \in 1..Len(get_metadata_schema)}
        metric_cols ==
            SelectSeq(df.columns, LAMBDA col : ~(col \in metadata \/ startswith(col, "unit_")))
        \* (null_counts / total_rows * 100).round(2), in hundredths of a percent
        null_percentages ==
            [col \in Range(metric_cols) |-> RoundHalfEven(df.nulls[col] * 10000, rows)]
        exceeding == {col \in Range(metric_cols) :
                         null_percentages[col] > NullThresholdPercent * 100}
        cols_exceeding_threshold == [col \in exceeding |-> null_percentages[col]]
        nulls ==
            IF exceeding # {}
            THEN <<Finding("Columns exceeding 20% null threshold", cols_exceeding_threshold)>>
            ELSE <<>>
    IN  IF empty
        THEN \* the finding is appended to errors and the function returns before logging
             [exc |-> NoError, warnings |-> <<>>]
        ELSE IF "obs_timestamp" \notin Range(df.columns)
        THEN \* df["obs_timestamp"]
             [exc |-> Raise("KeyError", "obs_timestamp"), warnings |-> <<>>]
        ELSE IF metric_cols = <<>>
        THEN [exc |-> Raise("AssertionError", "No metric columns found"), warnings |-> <<>>]
        ELSE [exc |-> NoError, warnings |-> insufficient \o duplicates \o nulls]

----------------------------------------------------------------------------
(* main.py: parse *)

\* re.search(r"frequency=([^/]+)", s): the leftmost match and its group 1
re_search_frequency(s) ==
    LET key == "frequency="
        n == Len(s)
        k == Len(key)
        starts == {i \in 1..n : /\ i + k <= n
                                /\ SubSeq(s, i, i + k - 1) = key
                                /\ SubSeq(s, i + k, i + k) # "/"}
    IN  IF starts = {} THEN [matched |-> FALSE, group1 |-> ""]
        ELSE LET i == CHOOSE x \in starts : \A y \in starts : x <= y
                 stops == {j \in (i + k)..n : j = n \/ SubSeq(s, j + 1, j + 1) = "/"}
                 j == CHOOSE x \in stops : \A y \in stops : x <= y
             IN  [matched |-> TRUE, group1 |-> SubSeq(s, i + k, j)]

SchemaNames(schema) == {schema[i][1] : i \in 1..Len(schema)}

\* A slip in parse: the unit_ columns are not added to the schema.
extend_schema_skipped(schemas, frequency, unit_columns) == schemas

\* schema.extend([(col, pa.string()) for col in unit_columns]) on the list object
\* that FREQUENCY_TO_SCHEMA[frequency] is: the registry's own list grows.
extend_schema(schemas, frequency, unit_columns) ==
    [schemas EXCEPT ![frequency] =
        @ \o [i \in 1..Len(unit_columns) |-> <<unit_columns[i], "string">>]]

\* parse(df, output_filename): the exception raised (if any), the registry after
\* the call and the processed file written.  outcome tells whether the data
\* converts to the arrow schema and whether the file can be written.
parse(df, filename, schemas, outcome) ==
    LET frequency_match == re_search_frequency(filename)
        frequency == frequency_match.group1
    IN  IF ~frequency_match.matched
        THEN [exc |-> Raise("ValueError", "Could not extract frequency from: " \o filename),
              schemas |-> schemas, written |-> {}]
        ELSE IF frequency \notin DOMAIN schemas
        THEN [exc |-> Raise("KeyError", frequency), schemas |-> schemas, written |-> {}]
        ELSE
        LET unit_columns == SelectSeq(df.columns, LAMBDA col : startswith(col, "unit_"))
            extended == extend_schema(schemas, frequency, unit_columns)
            schema == extended[frequency]
            invalid == Range(df.columns) \ SchemaNames(schema)
            missing_timestamps == {"ingested_at", "obs_timestamp"} \ Range(df.columns)
        IN  IF invalid # {}
            THEN [exc |-> RaiseNaming("ValueError",
                                      "DataFrame contains columns not defined in schema",
                                      invalid),
                  schemas |-> extended, written |-> {}]
            ELSE IF missing_timestamps # {}
            THEN [exc |-> Raise("KeyError", "ingested_at or obs_timestamp"),
                  schemas |-> extended, written |-> {}]
            ELSE IF ~outcome.conforms
            THEN [exc |-> RaiseFrom("ValueError", "Data does not conform to expected schema",
                                    Raise("ArrowInvalid", "")),
                  schemas |-> extended, written |-> {}]
            ELSE IF ~outcome.write_ok
            THEN [exc |-> Raise("OSError", "cannot write the processed file"),
                  schemas |-> extended, written |-> {}]
            ELSE [exc |-> NoError, schemas |-> extended,
                  written |-> {str_replace(filename, ".csv", ".snappy.parquet")}]

----------------------------------------------------------------------------
(* main.py: the batch loop *)

\* the longest batch of query configurations
MaxBatch == 2

\* The queries a batch is made of: the three shapes of get_queries() (historical
\* daily and hourly for Berlin, a 15-minute forecast for explicit coordinates with
\* an elevation), a second daily query, and a query with an empty metric list.
BatchQueries ==
    {QueryConfig(WeatherHistoricalQueryConfig, LocationMember("BERLIN"), None,
                 <<Metric(DailyWeatherMetrics, 1), Metric(DailyWeatherMetrics, 5)>>, EOD,
                 DateTime(2023, 12, 25, 12, 0, 0), DateTime(2024, 1, 1, 12, 0, 0)),
     QueryConfig(WeatherHistoricalQueryConfig, LocationMember("BERLIN"), None,
                 <<Metric(HourlyWeatherMetrics, 1)>>, HOURLY,
                 DateTime(2023, 12, 25, 12, 0, 0), DateTime(2024, 1, 1, 12, 0, 0)),
     QueryConfig(WeatherForecastQueryConfig, LocationTuple("27.9881", "86.925"), Some(8848),
                 <<Metric(MinutelyWeatherMetrics, 1)>>, MINUTELY_15,
                 DateTime(2024, 1, 1, 12, 0, 0), DateTime(2024, 1, 1, 18, 30, 45)),
     QueryConfig(WeatherForecastQueryConfig, LocationMember("LONDON"), None,
                 <<Metric(DailyWeatherMetrics, 1)>>, EOD,
                 DateTime(2024, 1, 1, 12, 0, 0), DateTime(2024, 2, 28, 0, 0, 0)),
     QueryConfig(WeatherForecastQueryConfig, LocationMember("BERLIN"), None,
                 <<>>, HOURLY,
                 DateTime(2024, 1, 1, 12, 0, 0), DateTime(2024, 1, 1, 18, 30, 45))}

\* the numbers of timestamps a response may hold: none, a 7-day daily range, a day of hours
ResponseRows == {0, 7, 24}

\* What the API client and the file system may do for one query.
ClientOutcomes ==
    {[NoResponse EXCEPT !.raises = "OpenMeteoRequestsError"]}
    \cup {[NoResponse EXCEPT !.n = n] : n \in {0, 2}}
    \cup {[NoResponse EXCEPT !.n = 1]}
    \cup {[NoResponse EXCEPT !.n = 1, !.has_data = TRUE, !.unit_known = TRUE]}
    \cup {[NoResponse EXCEPT !.n = 1, !.has_data = TRUE, !.arrays_ok = TRUE]}
    \cup {[NoResponse EXCEPT !.n = 1, !.has_data = TRUE, !.arrays_ok = TRUE,
                             !.unit_known = TRUE, !.rows = rows, !.all_null = all_null,
                             !.write_ok = write_ok] :
             rows \in ResponseRows, all_null \in BOOLEAN, write_ok \in BOOLEAN}

ParseOutcomes == [conforms : BOOLEAN, write_ok : BOOLEAN]

DriverInit ==
    /\ configs \in {batch \in SeqsUpTo(BatchQueries, MaxBatch) :
                       /\ batch # <<>>
                       /\ \A i \in 1..Len(batch) : ~validate_model(batch[i]).raised}
    /\ idx = 1
    /\ pc = "load"
    /\ weather_data = NoDataFrame
    /\ response = NoResponse
    /\ FREQUENCY_TO_SCHEMA = InitialSchemas
    /\ raw_files = {}
    /\ processed_files = {}
    /\ error = NoError
    /\ log = <<>>
    /\ stages = [i \in 1..Len(configs) |-> <<>>]

\* weather_data = load(openmeteo=openmeteo, config=config)
Load ==
    /\ pc = "load"
    /\ \E outcome \in ClientOutcomes :
        LET result == load(configs[idx], outcome)
        IN  /\ response' = outcome
            /\ stages' = [stages EXCEPT ![idx] = Append(@, "load")]
            /\ raw_files' = raw_files \cup result.written
            /\ IF result.exc.raised
               THEN /\ pc' = "crashed"
                    /\ error' = result.exc
                    /\ UNCHANGED weather_data
               ELSE /\ pc' = "check"
                    /\ weather_data' = result.df
                    /\ UNCHANGED error
    /\ UNCHANGED <<configs, idx, FREQUENCY_TO_SCHEMA, processed_files, log>>

\* check_data_integrity(weather_data)
CheckDataIntegrity ==
    /\ pc = "check"
    /\ LET result == check_data_integrity(weather_data)
       IN  /\ log' = result.warnings
           /\ stages' = [stages EXCEPT ![idx] = Append(@, "check")]
           /\ IF result.exc.raised
              THEN pc' = "crashed" /\ error' = result.exc
              ELSE pc' = "parse" /\ UNCHANGED error
    /\ UNCHANGED <<configs, idx, weather_data, response, FREQUENCY_TO_SCHEMA,
                   raw_files, processed_files>>

\* A slip in the loop: after the conversion the same config is fetched again.
Parse_same_config_again ==
    /\ pc = "parse"
    /\ \E outcome \in ParseOutcomes :
        LET result == parse(weather_data, output_filename(configs[idx]),
                            FREQUENCY_TO_SCHEMA, outcome)
        IN  /\ FREQUENCY_TO_SCHEMA' = result.schemas
            /\ processed_files' = processed_files \cup result.written
            /\ stages' = [stages EXCEPT ![idx] = Append(@, "parse")]
            /\ IF result.exc.raised
               THEN pc' = "crashed" /\ error' = result.exc /\ UNCHANGED idx
               ELSE IF Len(stages[idx]) < 4
               THEN pc' = "load" /\ UNCHANGED <<idx, error>>
               ELSE pc' = "completed" /\ UNCHANGED <<idx, error>>
    /\ UNCHANGED <<configs, weather_data, response, raw_files, log>>

\* parse(weather_data, output_filename=config.output_filename), then the next
\* config of the loop, or the end of the loop
Parse ==
    /\ pc = "parse"
    /\ \E outcome \in ParseOutcomes :
        LET result == parse(weather_data, output_filename(configs[idx]),
                            FREQUENCY_TO_SCHEMA, outcome)
        IN  /\ FREQUENCY_TO_SCHEMA' = result.schemas
            /\ processed_files' = processed_files \cup result.written
            /\ stages' = [stages EXCEPT ![idx] = Append(@, "parse")]
            /\ IF result.exc.raised
               THEN pc' = "crashed" /\ error' = result.exc /\ UNCHANGED idx
               ELSE IF idx < Len(configs)
               THEN pc' = "load" /\ idx' = idx + 1 /\ UNCHANGED error
               ELSE pc' = "completed" /\ UNCHANGED <<idx, error>>
    /\ UNCHANGED <<configs, weather_data, response, raw_files, log>>

Init == QueryIdle /\ DriverInit

Next ==
    \/ Load /\ UNCHANGED query_vars
    \/ CheckDataIntegrity /\ UNCHANGED query_vars
    \/ Parse /\ UNCHANGED query_vars

\* the batch run of main.py
Spec == Init /\ [][Next]_vars

----------------------------------------------------------------------------
(* Specifications of the query configuration model *)

InitQuery == QueryInit /\ DriverIdle

NextQuery ==
    \/ ConstructAny /\ UNCHANGED driver_vars
    \/ RequestParams /\ UNCHANGED driver_vars
    \/ OutputFilename /\ UNCHANGED driver_vars

\* construction, then the derived request parameters and output path
SpecQuery == InitQuery /\ [][NextQuery]_vars

NextAssign ==
    \/ ConstructAny /\ UNCHANGED driver_vars
    \/ SetAttrAny /\ UNCHANGED driver_vars

\* construction, then attribute assignments by the holder of the object
SpecAssign == InitQuery /\ [][NextAssign]_vars

----------------------------------------------------------------------------
(* Direct calls of check_data_integrity and of parse on a table *)

\* the longest sequence of parse calls of one process
MaxCalls == 2

\* The sub-lists of a list of column names, the order kept.
SubLists(names) == {SelectSeq(names, LAMBDA c : c \in S) : S \in SUBSET Range(names)}

IsMetricColumn(col) ==
    ~(col \in {get_metadata_schema[i][1] : i \in 1..Len(get_metadata_schema)}
      \/ startswith(col, "unit_"))

\* pd.DataFrame with the given columns; shape gives the values of the timestamp
\* column, one per row, and the number of nulls of each metric column.
MakeTable(columns, shape) ==
    [columns |-> columns,
     rows |-> Len(shape.ts),
     obs_timestamp |-> IF "obs_timestamp" \in Range(columns) THEN shape.ts ELSE <<>>,
     nulls |-> [col \in {c \in Range(columns) : IsMetricColumn(c)} |-> shape.nulls[col]]]

\* A daily metric, a column of no schema, a metadata column and a unit_ column.
CheckColumns == <<"temperature_2m_max", "wind_speed", "obs_timestamp", "unit_temperature_2m_max">>

TableShape(ts, nulls_max, nulls_wind) ==
    [ts |-> ts, nulls |-> [temperature_2m_max |-> nulls_max, wind_speed |-> nulls_wind]]

\* no row; two rows of one timestamp; five rows of two timestamps with 20% and
\* 40% nulls; 7, 23 and 24 rows of distinct timestamps; 25 rows, two of them of
\* one timestamp, with 20% and 24% nulls
TableShapes ==
    {TableShape(<<>>, 0, 0),
     TableShape(<<1, 1>>, 0, 0),
     TableShape(<<1, 2, 1, 2, 1>>, 1, 2),
     TableShape([i \in 1..7 |-> i], 0, 7),
     TableShape([i \in 1..23 |-> i], 0, 0),
     TableShape([i \in 1..24 |-> i], 5, 0),
     TableShape([i \in 1..25 |-> IF i = 25 THEN 1 ELSE i], 5, 6)}

\* 4004 rows of one timestamp: 801 nulls (20.004995...%) and 800 nulls
LongTableShape == TableShape([i \in 1..4004 |-> 1], 801, 800)

CheckTables ==
    {MakeTable(columns, shape) : columns \in SubLists(CheckColumns), shape \in TableShapes}
    \cup {MakeTable(CheckColumns, LongTableShape)}

\* check_data_integrity(df), called on its own
CallCheckDataIntegrity ==
    /\ idx = 0
    /\ \E df \in CheckTables :
        \E result \in {check_data_integrity(df)} :
            /\ weather_data' = df
            /\ log' = result.warnings
            /\ error' = result.exc
            /\ pc' = IF result.exc.raised THEN "raised" ELSE "returned"
            /\ ret' = [op |-> "check_data_integrity", exc |-> NoException, value |-> <<>>]
    /\ idx' = idx + 1
    /\ UNCHANGED <<query, q_state, configs, response, FREQUENCY_TO_SCHEMA, raw_files,
                   processed_files, stages>>

InitCheck == QueryInit /\ DriverIdle

NextCheck == CallCheckDataIntegrity

\* one call of check_data_integrity on any table
SpecCheck == InitCheck /\ [][NextCheck]_vars

\* A daily metric, a column of no schema, the two timestamp columns and a unit_ column.
ParseColumns ==
    <<"temperature_2m_max", "wind_speed", "obs_timestamp", "ingested_at",
      "unit_temperature_2m_max">>

ParseTables == {MakeTable(columns, TableShape(<<1, 2>>, 0, 0)) : columns \in SubLists(ParseColumns)}

\* a daily path, an hourly path, and a path without the frequency= segment
ParseFilenames ==
    {"Historical/location=BERLIN/frequency=EOD/20231225_20240101.csv",
     "Forecast/location=27.9881_86.925/frequency=1_HOUR/20240101_20240102.csv",
     "20231225_20240101.csv"}

\* the effect of one call parse(df, filename) made on its own
ParseCall(df, filename, outcome) ==
    \E result \in {parse(df, filename, FREQUENCY_TO_SCHEMA, outcome)} :
        /\ weather_data' = df
        /\ FREQUENCY_TO_SCHEMA' = result.schemas
        /\ processed_files' = processed_files \cup result.written
        /\ error' = result.exc
        /\ pc' = IF result.exc.raised THEN "raised" ELSE "returned"
        /\ ret' = [op |-> "parse", exc |-> NoException, value |-> <<filename, outcome>>]

\* parse(df, output_filename), called on its own
CallParse ==
    /\ idx < MaxCalls
    /\ \E df \in ParseTables, filename \in ParseFilenames,
          \* the write is attempted only for data that converts
          outcome \in {o \in ParseOutcomes : o.conforms \/ o.write_ok} :
        ParseCall(df, filename, outcome)
    /\ idx' = idx + 1
    /\ UNCHANGED <<query, q_state, configs, response, raw_files, log, stages>>

InitParse == QueryInit /\ DriverIdle

NextParse == CallParse

\* a sequence of parse calls on any tables, in one process
SpecParse == InitParse /\ [][NextParse]_vars

\* Paths whose frequency= segment is missing, empty, or names something other
\* than a key of FREQUENCY_TO_SCHEMA, next to the paths parse accepts.
PathFilenames ==
    ParseFilenames \cup
    {"Forecast/location=BERLIN/frequency=WEEKLY/20240101_20240102.csv",
     "Forecast/location=BERLIN/frequency=eod/20240101_20240102.csv",
     "Forecast/location=BERLIN/frequency=/20240101_20240102.csv",
     "Historical/location=BERLIN/frequency=EOD.csv"}

\* parse(df, output_filename), called once on any path
CallParsePath ==
    /\ idx = 0
    /\ \E df \in ParseTables, filename \in PathFilenames,
          outcome \in {o \in ParseOutcomes : o.conforms \/ o.write_ok} :
        ParseCall(df, filename, outcome)
    /\ idx' = idx + 1
    /\ UNCHANGED <<query, q_state, configs, response, raw_files, log, stages>>

InitPath == QueryInit /\ DriverIdle

NextPath == CallParsePath

\* one call of parse on any table and any path
SpecPath == InitPath /\ [][NextPath]_vars

----------------------------------------------------------------------------
(* Properties of the batch run *)

\* The data model's tiers: the metric enumeration of each frequency.
TierOf(frequency) ==
    CASE frequency = "15_MINUTE" -> "MinutelyWeatherMetrics"
      [] frequency = "1_HOUR" -> "HourlyWeatherMetrics"
      [] frequency = "EOD" -> "DailyWeatherMetrics"

\* the stage the current query is in, or was in when the run stopped
LastStage(i) == IF stages[i] = <<>> THEN "" ELSE stages[i][Len(stages[i])]

\* C1: a fatal error raised by the fetch or the convert stage of one query does
\* not prevent any later query of the list from being processed: when such an
\* error has ended a query, every later query of the list is still fetched.
C1_FailureIsolated ==
    (pc = "crashed" /\ LastStage(idx) \in {"load", "parse"}) =>
        \A k \in (idx + 1)..Len(configs) : "load" \in Range(stages[k])

\* C2: when the client returns zero or several responses, or the frequency's
\* accessor yields no data object, the error that leaves load is of the
\* missing-response kind, not of the generic client-error kind.
C2_MissingResponseKind ==
    (/\ pc = "crashed"
     /\ LastStage(idx) = "load"
     /\ response.raises = ""
     /\ response.n # 1 \/ ~response.has_data) =>
        /\ error.type = "OpenMeteoMissingResponseError"
        /\ error.type # "OpenMeteoClientError"

MetadataColumns ==
    <<"obs_timestamp", "latitude", "longitude", "elevation", "model", "utc_offset_seconds",
      "timezone", "timezone_abbreviation", "generation_time_ms", "ingested_at">>

\* C3: at every point of a run the registry holds, for each tier, exactly the ten
\* metadata columns in their fixed order followed by that tier's metrics in
\* enumeration order, with no duplicate column name.
C3_RegistryUnchanged ==
    \A frequency \in {"15_MINUTE", "1_HOUR", "EOD"} :
        LET schema == FREQUENCY_TO_SCHEMA[frequency]
            metrics == Members(TierOf(frequency))
        IN  /\ Len(schema) = Len(MetadataColumns) + Len(metrics)
            /\ \A i \in 1..Len(MetadataColumns) : schema[i][1] = MetadataColumns[i]
            /\ \A i \in 1..Len(metrics) : schema[Len(MetadataColumns) + i] = metrics[i]
            /\ \A i, j \in 1..Len(schema) : schema[i][1] = schema[j][1] => i = j

----------------------------------------------------------------------------
(* Properties of the query configuration model *)

MetricsMatchTier(q) == \A i \in 1..Len(q.metrics) : q.metrics[i].cls = TierOf(q.frequency)

\* The (kind, frequency) pairs of the supported set.
SupportedPairs ==
    {<<"WeatherForecastQueryConfig", "15_MINUTE">>, <<"WeatherForecastQueryConfig", "1_HOUR">>,
     <<"WeatherForecastQueryConfig", "EOD">>, <<"WeatherHistoricalQueryConfig", "1_HOUR">>,
     <<"WeatherHistoricalQueryConfig", "EOD">>}

Count(x, seq) == Cardinality({i \in 1..Len(seq) : seq[i] = x})

\* C4: once constructed, no attribute of a query changes, so that its frequency
\* stays supported by its kind and its metrics stay in the tier of its frequency.
C4_ImmutableAndValid ==
    [][q_state = "constructed" =>
          /\ query' = query
          /\ <<query'.cls, query'.frequency>> \in SupportedPairs
          /\ MetricsMatchTier(query')]_vars

\* C5: with metrics matching the tier, construction succeeds for the five
\* supported (kind, frequency) pairs, and for (Historical, 15-minute) it fails with
\* the unsupported-frequency error naming the frequency and the query kind.
C5_SupportedPairsConstruct ==
    (ret.op = "__init__" /\ MetricsMatchTier(query)) =>
        IF <<query.cls, query.frequency>> \in SupportedPairs
        THEN q_state = "constructed" /\ ~ret.exc.raised
        ELSE /\ query.cls = "WeatherHistoricalQueryConfig"
             /\ query.frequency = "15_MINUTE"
             /\ q_state = "rejected"
             /\ ret.exc.raised
             /\ ret.exc.type = "ValueError"
             /\ ret.exc.validator = "validate_frequency"
             /\ ret.exc.frequency = query.frequency
             /\ ret.exc.cls_name = query.cls

C5_Witness ==
    /\ ret.op = "__init__"
    /\ query.cls = "WeatherHistoricalQueryConfig"
    /\ query.frequency = "15_MINUTE"
    /\ query.metrics = <<Metric(MinutelyWeatherMetrics, 1)>>
    /\ q_state = "rejected"

\* C6: for a supported (kind, frequency) pair and a metric list holding a metric of
\* another tier, construction fails with the mismatch error, which names exactly
\* the metrics of the list outside the expected tier, and the expected tier.
C6_MismatchNamesOffenders ==
    (/\ ret.op = "__init__"
     /\ <<query.cls, query.frequency>> \in SupportedPairs
     /\ ~MetricsMatchTier(query)) =>
        /\ q_state = "rejected"
        /\ ret.exc.raised
        /\ ret.exc.type = "ValueError"
        /\ ret.exc.validator = "validate_metrics_frequency"
        /\ ret.exc.frequency = query.frequency
        /\ ret.exc.expected = TierOf(query.frequency)
        /\ \A m \in Range(query.metrics) \cup Range(ret.exc.invalid_metrics) :
              Count(m, ret.exc.invalid_metrics) =
                  IF m.cls = TierOf(query.frequency) THEN 0 ELSE Count(m, query.metrics)

C6_Witness ==
    /\ ret.op = "__init__"
    /\ query.cls = "WeatherForecastQueryConfig"
    /\ query.frequency = "EOD"
    /\ query.metrics = <<Metric(DailyWeatherMetrics, 1), Metric(HourlyWeatherMetrics, 1)>>
    /\ ret.exc.invalid_metrics = <<Metric(HourlyWeatherMetrics, 1)>>

LocationText(q) ==
    IF q.location.py_class = "Location" THEN q.location.value[1]
    ELSE q.location.value[1] \o "_" \o q.location.value[2]

KindPrefix(q) == IF q.cls = "WeatherForecastQueryConfig" THEN "Forecast/" ELSE "Historical/"

\* C7: the output path is {kind-prefix}/location={loc}/frequency={freq}/{start}_{end}.csv
\* with start and end as dates for the daily tier and as date-times to the minute
\* for the 15-minute and hourly tiers.
C7_OutputPathByTier ==
    ret.op = "output_filename" =>
        LET fmt == IF query.frequency = "EOD" THEN "%Y%m%d" ELSE "%Y%m%d_%H%M"
        IN  ret.value =
                KindPrefix(query) \o "location=" \o LocationText(query)
                \o "/frequency=" \o query.frequency \o "/"
                \o strftime(query.start_dt, fmt) \o "_" \o strftime(query.end_dt, fmt)
                \o ".csv"

SameInstant(a, b, frequency) ==
    /\ a.year = b.year /\ a.month = b.month /\ a.day = b.day
    /\ frequency = "EOD" \/ (a.hour = b.hour /\ a.minute = b.minute)

Differ(q, o) ==
    \/ q.cls # o.cls
    \/ q.location # o.location
    \/ q.frequency # o.frequency
    \/ ~SameInstant(q.start_dt, o.start_dt, q.frequency)
    \/ ~SameInstant(q.end_dt, o.end_dt, q.frequency)

\* C8: two valid queries that differ in kind, location, frequency, start or end
\* (to the minute for the 15-minute and hourly tiers, to the day for the daily
\* tier) have different output paths.
C8_DistinctQueriesDistinctPaths ==
    ret.op = "output_filename" =>
        \A cls \in QueryClasses, location \in QueryLocations, frequency \in WeatherFrequency,
           start_dt \in QueryDateTimes, end_dt \in QueryDateTimes :
            LET other == QueryConfig(cls, location, None, <<>>, frequency, start_dt, end_dt)
            IN  (<<cls, frequency>> \in SupportedPairs /\ Differ(query, other))
                    => output_filename(other) # ret.value

\* The tier's parameter names: field, start, end.
TierParams(frequency) ==
    CASE frequency = "15_MINUTE" -> <<"minutely_15", "start_minutely_15", "end_minutely_15">>
      [] frequency = "1_HOUR" -> <<"hourly", "start_hour", "end_hour">>
      [] frequency = "EOD" -> <<"daily", "start_date", "end_date">>

CumulativeDays == <<0, 31, 59, 90, 120, 151, 181, 212, 243, 273, 304, 334>>

\* The number of the day (year, month, day) in the proleptic Gregorian calendar.
DayNumber(y, mo, d) ==
    365 * (y - 1) + ((y - 1) \div 4) - ((y - 1) \div 100) + ((y - 1) \div 400)
    + CumulativeDays[mo] + (IF mo > 2 /\ IsLeap(y) THEN 1 ELSE 0) + d

DateText(y, mo, d) == ToString(y) \o "-" \o Pad2(mo) \o "-" \o Pad2(d)

\* text is the bare date of the day after dt's day
IsNextDayText(text, dt) ==
    \E y \in {dt.year, dt.year + 1}, mo \in {dt.month, (dt.month % 12) + 1}, d \in 1..31 :
        /\ d <= DaysInMonth(y, mo)
        /\ DayNumber(y, mo, d) = DayNumber(dt.year, dt.month, dt.day) + 1
        /\ text = DateText(y, mo, d)

\* C9: request_params() gives, for the daily tier, the start floored to midnight
\* and the end floored to midnight plus one day, as bare dates; for the other
\* tiers both timestamps unchanged, to the minute; under the tier's parameter names.
C9_TimeRangeByTier ==
    ret.op = "request_params" =>
        LET names == TierParams(query.frequency)
            params == ret.value
        IN  /\ {names[1], names[2], names[3]} \subseteq DOMAIN params
            /\ DOMAIN params \subseteq
                  {"latitude", "longitude", "elevation", names[1], names[2], names[3]}
            /\ IF query.frequency = "EOD"
               THEN /\ params[names[2]] =
                          DateText(query.start_dt.year, query.start_dt.month, query.start_dt.day)
                    /\ IsNextDayText(params[names[3]], query.end_dt)
               ELSE /\ params[names[2]] = strftime(query.start_dt, "%Y-%m-%dT%H:%M")
                    /\ params[names[3]] = strftime(query.end_dt, "%Y-%m-%dT%H:%M")
            /\ (/\ query.frequency = "EOD"
                /\ query.start_dt = DateTime(2023, 12, 25, 12, 0, 0)
                /\ query.end_dt = DateTime(2024, 1, 1, 12, 0, 0)) =>
                    (params["start_date"] = "2023-12-25" /\ params["end_date"] = "2024-01-02")

C9_Witness ==
    /\ ret.op = "request_params"
    /\ query.frequency = "EOD"
    /\ query.start_dt = DateTime(2023, 12, 25, 12, 0, 0)
    /\ query.end_dt = DateTime(2023, 12, 31, 23, 59, 0)
    /\ ret.value["end_date"] = "2024-01-01"

\* C10: request_params() holds an elevation parameter, the elevation as a string,
\* for every query built with an elevation (0 included), and none exactly when the
\* query has no elevation.
C10_ElevationParam ==
    ret.op = "request_params" =>
        /\ ("elevation" \in DOMAIN ret.value) <=> ~query.elevation.is_none
        /\ ~query.elevation.is_none =>
              ret.value["elevation"] = ToString(query.elevation.value) \o ".0"

----------------------------------------------------------------------------
(* Properties of the stages *)

\* C11: the integrity check never raises and never stops the pipeline: for every
\* table the fetch stage hands over, the check returns normally and the convert
\* stage of that query is run next.
C11_CheckNeverStopsPipeline ==
    [][pc = "check" => (pc' = "parse" /\ ~error'.raised)]_vars

\* sub occurs in s
Contains(s, sub) ==
    \E i \in 1..(Len(s) - Len(sub) + 1) : SubSeq(s, i, i + Len(sub) - 1) = sub

\* The tiers a path names in a frequency=<tier>/ segment.
PathTiers(filename) ==
    {f \in {"15_MINUTE", "1_HOUR", "EOD"} : Contains(filename, "frequency=" \o f \o "/")}

\* The column names of a tier's schema: the metadata columns and the tier's metrics.
TierColumns(frequency) ==
    Range(MetadataColumns)
    \cup {Members(TierOf(frequency))[i][1] : i \in 1..Len(Members(TierOf(frequency)))}

\* The columns of a table that are neither in the tier's schema nor unit_ columns.
UnknownColumns(df, frequency) ==
    {c \in Range(df.columns) : ~startswith(c, "unit_") /\ c \notin TierColumns(frequency)}

\* C12: parse, given a table with a column that is neither in the schema of the
\* path's tier nor a unit_ column, fails with the unknown-column ValueError naming
\* exactly the set of such columns, and writes no processed file.
C12_UnknownColumnsNamed ==
    [][(ret'.op = "parse" /\ idx' = idx + 1) =>
          \A f \in PathTiers(ret'.value[1]) :
              UnknownColumns(weather_data', f) # {} =>
                  /\ error'.raised
                  /\ error'.type = "ValueError"
                  /\ error'.msg = "DataFrame contains columns not defined in schema"
                  /\ error'.detail = UnknownColumns(weather_data', f)
                  /\ processed_files' = processed_files]_vars

C12_Witness ==
    /\ ret.op = "parse"
    /\ idx = 2
    /\ PathTiers(ret.value[1]) = {"1_HOUR"}
    /\ "unit_temperature_2m_max" \in Range(weather_data.columns)
    /\ error.type = "ValueError"
    /\ error.detail = {"temperature_2m_max", "wind_speed"}

\* The processed file of a raw path: .csv replaced by .snappy.parquet.
ProcessedName(filename) == SubSeq(filename, 1, Len(filename) - 4) \o ".snappy.parquet"

\* C13: parse succeeds and writes the processed file for every table whose (non-empty)
\* column set is a strict subset of the columns of the tier's schema, whichever columns
\* are missing (obs_timestamp and ingested_at included), when the data converts
\* and the file can be written.
C13_StrictSubsetConverts ==
    ret.op = "parse" =>
        \A f \in PathTiers(ret.value[1]) :
            (/\ weather_data.columns # <<>>
             /\ Range(weather_data.columns) \subseteq TierColumns(f)
             /\ Range(weather_data.columns) # TierColumns(f)
             /\ ret.value[2].conforms
             /\ ret.value[2].write_ok) =>
                /\ ~error.raised
                /\ ProcessedName(ret.value[1]) \in processed_files

StageOrder == <<"load", "check", "parse">>

IsPrefix(s, t) == Len(s) <= Len(t) /\ s = SubSeq(t, 1, Len(s))

\* query i of the batch failed: an error raised in one of its stages ended it
Failed(i) == pc = "crashed" /\ idx = i /\ error.raised

\* C14: for each query the stages run in the order fetch, check, convert, each at
\* most once, and the three stages of a query finish (or the query fails) before
\* the fetch of the next query of the list begins.
C14_StagesInOrder ==
    \A i \in 1..Len(stages) :
        /\ IsPrefix(stages[i], StageOrder)
        /\ \A j \in (i + 1)..Len(stages) :
              stages[j] # <<>> => (stages[i] = StageOrder \/ Failed(i))

C14_Witness ==
    /\ pc = "completed"
    /\ Len(configs) = 2
    /\ stages = <<StageOrder, StageOrder>>

\* C15: check_data_integrity on an empty table reports the empty-result finding
\* as an advisory log entry and runs none of the later checks: the log holds that
\* entry and no other, and nothing is raised.
C15_EmptyTableAdvisory ==
    (/\ pc = "parse"
     /\ LastStage(idx) = "check"
     /\ weather_data.rows = 0) =>
        /\ ~error.raised
        /\ Len(log) = 1
        /\ log[1].msg = "Weather data DataFrame is empty"

\* the entries of the log whose message holds the text
LogEntries(text) == {k \in 1..Len(log) : Contains(log[k].msg, text)}

\* C16: for a non-empty table, check_data_integrity reports the duplicate-timestamp
\* advisory exactly when some observation timestamp occurs in more than one row,
\* and the count it reports is the number of rows minus the number of distinct
\* timestamps.
C16_DuplicateTimestampAdvisory ==
    (/\ ret.op = "check_data_integrity"
     /\ weather_data.rows > 0
     /\ "obs_timestamp" \in Range(weather_data.columns)) =>
        LET count == weather_data.rows - Cardinality(Range(weather_data.obs_timestamp))
        IN  IF count > 0
            THEN /\ LogEntries("duplicate timestamp") # {}
                 /\ \A k \in LogEntries("duplicate timestamp") :
                       log[k].msg = "Found " \o ToString(count) \o " duplicate timestamp entries"
            ELSE LogEntries("duplicate timestamp") = {}

\* C17: for every non-empty table with fewer than 24 rows check_data_integrity
\* reports the insufficient-data-points finding as an advisory and returns without
\* raising; for a table with 24 rows or more it does not report this finding.
C17_InsufficientRowsAdvisory ==
    (LastStage(idx) = "check" /\ weather_data.rows > 0) =>
        IF weather_data.rows < 24
        THEN /\ pc # "crashed"
             /\ \E k \in LogEntries("Insufficient data points") :
                   log[k].msg = "Insufficient data points: found "
                                    \o ToString(weather_data.rows)
                                    \o " rows, expected at least 24"
        ELSE LogEntries("Insufficient data points") = {}

\* The columns named by the null-threshold finding of the log, if any.
ReportedNullColumns ==
    UNION {DOMAIN log[k].detail : k \in LogEntries("null threshold")}

\* The metric columns whose nulls are more than 20% of the rows.
ColumnsOverNullThreshold(df) ==
    {c \in Range(df.columns) :
        /\ c \notin Range(MetadataColumns)
        /\ ~startswith(c, "unit_")
        /\ 100 * df.nulls[c] > 20 * df.rows}

\* C18: for a non-empty table, the null-threshold finding of check_data_integrity
\* names exactly the metric columns whose share of nulls is strictly greater than
\* 20% of the rows; a column with exactly 20%, a metadata column and a unit_ column
\* are never named.
C18_NullThresholdColumns ==
    (/\ ret.op = "check_data_integrity"
     /\ weather_data.rows > 0
     /\ "obs_timestamp" \in Range(weather_data.columns)) =>
        ReportedNullColumns = ColumnsOverNullThreshold(weather_data)

\* The kind of the error raised inside load for a response that is not a
\* missing-response case: the client's own error, a ValueError of the table
\* construction, a KeyError of the unit table, an OSError of the raw write.
OriginalErrorKind(config, r) ==
    IF r.raises # "" THEN r.raises
    ELSE IF config.metrics # <<>> /\ ~r.arrays_ok THEN "ValueError"
    ELSE IF config.metrics # <<>> /\ ~r.unit_known THEN "KeyError"
    ELSE "OSError"

\* C19: any failure inside load other than the missing-response failures leaves
\* load as an OpenMeteoClientError whose message contains the message of the
\* original error and whose cause is the original error.
C19_OtherFailuresWrapped ==
    (/\ pc = "crashed"
     /\ LastStage(idx) = "load"
     /\ response.raises # "" \/ (response.n = 1 /\ response.has_data)) =>
        /\ error.type = "OpenMeteoClientError"
        /\ error.cause.type = OriginalErrorKind(configs[idx], response)
        /\ error.cause.msg # ""
        /\ Contains(error.msg, error.cause.msg)

C19_Witness ==
    /\ pc = "crashed"
    /\ LastStage(idx) = "load"
    /\ response.n = 1 /\ response.has_data /\ response.arrays_ok /\ ~response.unit_known
    /\ error.type = "OpenMeteoClientError"
    /\ error.cause.type = "KeyError"

\* C20: for every valid query, the tier that parse recovers from the query's
\* output path with the frequency=<tier> pattern is the query's declared frequency
\* and is a key of the schema registry.
C20_PathCarriesFrequency ==
    ret.op = "output_filename" =>
        LET frequency_match == re_search_frequency(ret.value)
        IN  /\ frequency_match.matched
            /\ frequency_match.group1 = query.frequency
            /\ frequency_match.group1 \in DOMAIN FREQUENCY_TO_SCHEMA

C20_Witness ==
    /\ ret.op = "output_filename"
    /\ query.cls = "WeatherForecastQueryConfig"
    /\ query.location.py_class = "tuple"
    /\ query.frequency = "15_MINUTE"
    /\ re_search_frequency(ret.value).group1 = "15_MINUTE"

\* C21: a call of parse with a path from which no tier can be recovered (no
\* frequency=<tier> segment, or a segment naming none of the three tiers) fails
\* with ValueError and writes no processed file.
C21_NoTierIsValueError ==
    (ret.op = "parse" /\ PathTiers(ret.value[1]) = {})
        => /\ error.raised
           /\ error.type = "ValueError"
           /\ processed_files = {}

C23_FrequencyErrorOnly ==
    (/\ ret.op = "__init__"
     /\ <<query.cls, query.frequency>> \notin SupportedPairs
     /\ ~MetricsMatchTier(query)) =>
        /\ q_state = "rejected"
        /\ ret.exc.raised
        /\ ret.exc.type = "ValueError"
        /\ ret.exc.validator = "validate_frequency"
        /\ ret.exc.frequency = query.frequency
        /\ ret.exc.cls_name = query.cls
        /\ ret.exc.invalid_metrics = <<>>
        /\ ret.exc.expected = ""

\* A historical query at the 15-minute frequency with a daily and an hourly metric.
C23_Witness ==
    /\ ret.op = "__init__"
    /\ query.cls = "WeatherHistoricalQueryConfig"
    /\ query.frequency = "15_MINUTE"
    /\ query.metrics = <<Metric(DailyWeatherMetrics, 1), Metric(HourlyWeatherMetrics, 1)>>
    /\ q_state = "rejected"
    /\ ret.exc.validator = "validate_frequency"

====
